---- MODULE Spec2Model ----
(***************************************************************************)
(* AnnotationParser (src/annotation_parser.py): the Kindle clippings        *)
(* reader, the normalizer, the merger and the writer.                       *)
(*                                                                          *)
(* Text is a sequence of one-character strings.  The input stream is a      *)
(* sequence of lines without their terminators; readline gives a line back  *)
(* with its terminator, as the text-mode file object does.  An output file  *)
(* is the character sequence _write produces, and it is read back with      *)
(* splitlines/split exactly as _read_existing_blocks does.                  *)
(*                                                                          *)
(* hash(raw_header) is Python's string hash, seeded anew in every process:  *)
(* it is a value fixed by the header and the seed of the process, and the   *)
(* seed is any member of Seeds.                                             *)
(*                                                                          *)
(* Spec      one parse() call over the directory an earlier run left        *)
(* SpecRerun the parse() call that repeats the earlier run's input (merge)  *)
(* SpecRead  the loop of _read on longer streams                            *)
(* SpecNorm  _normalize_block applied twice                                 *)
(***************************************************************************)
EXTENDS Integers, Sequences, FiniteSets, TLC

VARIABLES
    pc,            \* position of the parse() call: init, reading, writing, done, failed
    error,         \* the exception parse() raised, "none" if none
    input_exists,  \* os.path.isfile(self.input_path)
    merge_option,  \* self.merge_option
    seed,          \* the string-hash seed of the running process
    infile,        \* the open input stream: its lines and the number of lines consumed
    books,         \* self.books: ordered records [header, blocks]
    widx,          \* position of the for loop of _write in self.books
    dir_exists,    \* os.path.exists(self.output_path)
    files,         \* the output directory: filename -> file text
    written,       \* per output file: the header and blocks last serialized into it,
                   \* the blocks it held before that write, whether that write merged
    text,          \* the argument given to _normalize_block
    block_text,    \* the value _normalize_block last returned
    napplied       \* how many times _normalize_block has been applied to text

vars == <<pc, error, input_exists, merge_option, seed, infile, books, widx,
          dir_exists, files, written, text, block_text, napplied>>

----------------------------------------------------------------------------
(* Bounds and alphabets *)

MaxLines == 5        \* lines of the input file of the parse() run
MaxPriorLines == 3   \* lines of the input file of the earlier run that left the output directory
MaxRerunLines == 4   \* lines of the input file that is parsed twice
MaxStreamLen == 7    \* lines of an input stream of the Reader alone
MaxStrLen == 4       \* characters of an argument of _normalize_block

NEW_LINE == "\n"
MAX_TITLE_LENGTH == 112

SEPARATOR == <<"=", "=", "=", "=", "=", "=", "=", "=", "=", "=">>

L_empty == <<>>
L_blank == <<" ">>
L_a == <<"a">>
L_ab == <<"a", "(", "b", ")">>

LineSet == {L_empty, L_blank, L_a, L_ab, SEPARATOR}
RunLineSet == {L_blank, L_a, SEPARATOR}
NormChars == {"a", " ", NEW_LINE}
Seeds == {"s0", "s1"}
PriorSeed == "s0"

SeqsUpTo(S, n) == UNION {[1..k -> S] : k \in 0..n}

----------------------------------------------------------------------------
(* str methods *)

isalnum(ch) == ch \in {"a", "b"}
isspace(ch) == ch \in {" ", NEW_LINE}

RECURSIVE rstrip(_)
rstrip(s) ==
    IF s = <<>> THEN s
    ELSE IF isspace(s[Len(s)]) THEN rstrip(SubSeq(s, 1, Len(s) - 1))
    ELSE s

RECURSIVE lstrip(_)
lstrip(s) ==
    IF s = <<>> THEN s
    ELSE IF isspace(s[1]) THEN lstrip(Tail(s))
    ELSE s

strip(s) == lstrip(rstrip(s))

RECURSIVE rstrip_newlines(_)
rstrip_newlines(s) ==
    IF s = <<>> THEN s
    ELSE IF s[Len(s)] = NEW_LINE THEN rstrip_newlines(SubSeq(s, 1, Len(s) - 1))
    ELSE s

RECURSIVE rfind(_, _)
rfind(s, ch) ==
    IF s = <<>> THEN -1
    ELSE IF s[Len(s)] = ch THEN Len(s) - 1
    ELSE rfind(SubSeq(s, 1, Len(s) - 1), ch)

RECURSIVE split(_)
split(s) ==
    IF \A i \in 1..Len(s) : s[i] # NEW_LINE THEN <<s>>
    ELSE LET i == CHOOSE j \in 1..Len(s) :
                     s[j] = NEW_LINE /\ \A k \in 1..(j - 1) : s[k] # NEW_LINE
         IN <<SubSeq(s, 1, i - 1)>> \o split(SubSeq(s, i + 1, Len(s)))

splitlines(s) ==
    LET parts == split(s)
    IN IF parts[Len(parts)] = <<>> THEN SubSeq(parts, 1, Len(parts) - 1) ELSE parts

RECURSIVE join(_)
join(lines) ==
    IF lines = <<>> THEN <<>>
    ELSE IF Len(lines) = 1 THEN lines[1]
    ELSE lines[1] \o <<NEW_LINE>> \o join(Tail(lines))

readline(f) ==
    IF f.pos >= Len(f.lines) THEN <<>> ELSE f.lines[f.pos + 1] \o <<NEW_LINE>>

----------------------------------------------------------------------------
(* Normalizer *)

NormalizeWithoutStrip(s) == s \o <<NEW_LINE>>

_normalize_block(s) == rstrip(s) \o <<NEW_LINE>>

----------------------------------------------------------------------------
(* Reader *)

RECURSIVE _read_block(_, _)
_read_block(f, annotation) ==
    LET current_line == readline(f)
    IN IF current_line = <<>>
       THEN [annotation |-> annotation \o <<NEW_LINE>>, pos |-> f.pos]
       ELSE IF strip(current_line) = SEPARATOR
       THEN [annotation |-> annotation \o <<NEW_LINE>>, pos |-> f.pos + 1]
       ELSE LET line == rstrip_newlines(current_line)
                rest == [f EXCEPT !.pos = @ + 1]
            IN IF line = <<>>
               THEN _read_block(rest, annotation)
               ELSE _read_block(rest, annotation \o line \o <<NEW_LINE>>)

header_line(f) ==
    LET h == rstrip_newlines(readline(f))
    IN IF h # <<>> /\ ~isalnum(h[1]) THEN Tail(h) ELSE h

SkipConsumesBlock(f) == _read_block([f EXCEPT !.pos = @ + 1], <<>>).pos

skip_header(f) == f.pos + 1

AppendAlways(d, key) == Append(d, key)

MoveToFront(d, key) ==
    <<key>> \o SelectSeq(d, LAMBDA b : b # key)

setdefault(d, key) ==
    IF \E i \in 1..Len(d) : d[i] = key THEN d ELSE Append(d, key)

book_index(bks, header) ==
    IF \E i \in 1..Len(bks) : bks[i].header = header
    THEN CHOOSE i \in 1..Len(bks) : bks[i].header = header
    ELSE 0

InsertNewest(bks, header, block) ==
    LET i == book_index(bks, header)
    IN IF i = 0 THEN <<[header |-> header, blocks |-> <<block>>]>> \o bks
       ELSE [bks EXCEPT ![i].blocks = MoveToFront(@, block)]

insert_block(bks, header, block) ==
    LET bs == IF book_index(bks, header) = 0
              THEN Append(bks, [header |-> header, blocks |-> <<>>])
              ELSE bks
        i == book_index(bs, header)
    IN [bs EXCEPT ![i].blocks = setdefault(@, block)]

read_entry(f, bks) ==
    LET blk == _read_block([f EXCEPT !.pos = @ + 1], <<>>)
    IN [pos |-> blk.pos,
        books |-> insert_block(bks, header_line(f), _normalize_block(blk.annotation))]

RECURSIVE _read(_, _)
_read(f, bks) ==
    IF readline(f) = <<>> THEN bks
    ELSE IF header_line(f) = <<>> THEN _read([f EXCEPT !.pos = skip_header(f)], bks)
    ELSE LET r == read_entry(f, bks)
         IN _read([f EXCEPT !.pos = r.pos], r.books)

----------------------------------------------------------------------------
(* Writer *)

_get_title_author(book_header) ==
    LET open_paren == rfind(book_header, "(")
        close_paren == rfind(book_header, ")")
    IN IF open_paren > 0 /\ close_paren > open_paren
       THEN [title |-> strip(SubSeq(book_header, 1, open_paren)),
             author |-> strip(SubSeq(book_header, open_paren + 2, close_paren))]
       ELSE [title |-> strip(book_header), author |-> <<>>]

clean_title(title) ==
    LET kept == SelectSeq(title,
                    LAMBDA ch : isalnum(ch) \/ ch \in {" ", ".", "_", "(", ")", "-"})
    IN SubSeq(kept, 1, IF Len(kept) < MAX_TITLE_LENGTH THEN Len(kept) ELSE MAX_TITLE_LENGTH)

\* hash(raw_header): a value fixed by the header and the seed of the process.
hash_str(raw_header, sd) == <<sd, raw_header>>

\* f"{clean_title}_{hash_str}.txt" under self.output_path
fullpath(raw_header, sd) ==
    [title |-> clean_title(_get_title_author(raw_header).title),
     hash |-> hash_str(raw_header, sd)]

RECURSIVE write_blocks(_)
write_blocks(blocks) ==
    IF blocks = <<>> THEN <<>>
    ELSE Head(blocks) \o <<NEW_LINE>> \o write_blocks(Tail(blocks))

file_text(raw_header, blocks) ==
    LET ta == _get_title_author(raw_header)
    IN ta.title \o <<",", " ">> \o ta.author \o <<NEW_LINE, NEW_LINE>> \o write_blocks(blocks)

----------------------------------------------------------------------------
(* Merger *)

RECURSIVE split_loop(_, _, _)
split_loop(lines, blocks, current_block) ==
    IF lines = <<>>
    THEN IF current_block # <<>>
         THEN Append(blocks, join(current_block) \o <<NEW_LINE>>)
         ELSE blocks
    ELSE IF strip(Head(lines)) = <<>>
    THEN IF current_block # <<>>
         THEN split_loop(Tail(lines),
                         Append(blocks, join(current_block) \o <<NEW_LINE>>), <<>>)
         ELSE split_loop(Tail(lines), blocks, current_block)
    ELSE split_loop(Tail(lines), blocks, Append(current_block, Head(lines)))

_split_into_blocks(annotation_text) == split_loop(split(annotation_text), <<>>, <<>>)

_read_existing_blocks(content) ==
    LET lines == splitlines(content)
        idx == IF 1 < Len(lines) /\ strip(lines[2]) = <<>> THEN 2 ELSE 1
    IN _split_into_blocks(join(SubSeq(lines, idx + 1, Len(lines))))

RECURSIVE merge_loop(_, _)
merge_loop(old_blocks, annotation_dict) ==
    IF old_blocks = <<>> THEN annotation_dict
    ELSE merge_loop(Tail(old_blocks),
                    setdefault(annotation_dict, _normalize_block(Head(old_blocks))))

MergeOldFirst(content, annotation_dict) ==
    merge_loop(annotation_dict, merge_loop(_read_existing_blocks(content), <<>>))

_merge_with_existing(content, annotation_dict) ==
    merge_loop(_read_existing_blocks(content), annotation_dict)

MergeWheneverFileExists(merge, exists) == exists

should_merge(merge, exists) == merge /\ exists

\* One iteration of the for loop of _write.
write_book(fs, wr, bk, merge, sd) ==
    LET path == fullpath(bk.header, sd)
        exists == path \in DOMAIN fs
        merging == should_merge(merge, exists)
        blocks == IF merging THEN _merge_with_existing(fs[path], bk.blocks) ELSE bk.blocks
    IN [blocks |-> blocks,
        files |-> (path :> file_text(bk.header, blocks)) @@ fs,
        written |-> (path :> [header |-> bk.header,
                              blocks |-> blocks,
                              prev |-> IF exists THEN wr[path].blocks ELSE <<>>,
                              merged |-> merging]) @@ wr]

RECURSIVE _write(_, _, _, _, _)
_write(fs, wr, bks, merge, sd) ==
    IF bks = <<>> THEN [dir_exists |-> TRUE, files |-> fs, written |-> wr]
    ELSE LET w == write_book(fs, wr, Head(bks), merge, sd)
         IN _write(w.files, w.written, Tail(bks), merge, sd)

----------------------------------------------------------------------------
(* The output directory an earlier run leaves behind *)

NoFiles == [p \in {} |-> <<>>]
Closed == [lines |-> <<>>, pos |-> 0]
Opened(lines) == [lines |-> lines, pos |-> 0]

FreshDir == [dir_exists |-> FALSE, files |-> NoFiles, written |-> NoFiles]

DirAfter(lines, sd) == _write(NoFiles, NoFiles, _read(Opened(lines), <<>>), TRUE, sd)

PriorDirs(lineset, n) ==
    {FreshDir} \cup {DirAfter(lines, PriorSeed) : lines \in SeqsUpTo(lineset, n)}

----------------------------------------------------------------------------
(* parse(): _read() then _write() *)

ReadWithoutCheck(exists) == "reading"

open_input(exists) == IF exists THEN "reading" ELSE "failed"

Init ==
    /\ pc = "init"
    /\ error = "none"
    /\ input_exists \in BOOLEAN
    /\ merge_option \in BOOLEAN
    /\ seed \in Seeds
    /\ infile = Closed
    /\ books = <<>>
    /\ widx = 0
    /\ \E d \in PriorDirs(RunLineSet, MaxPriorLines) :
          /\ dir_exists = d.dir_exists
          /\ files = d.files
          /\ written = d.written
    /\ text = <<>>
    /\ block_text = <<>>
    /\ napplied = 0

ParseMissing ==
    /\ pc = "init"
    /\ open_input(input_exists) = "failed"
    /\ pc' = "failed"
    /\ error' = "FileNotFoundError"
    /\ UNCHANGED <<input_exists, merge_option, seed, infile, books, widx,
                   dir_exists, files, written, text, block_text, napplied>>

ParseOpen ==
    /\ pc = "init"
    /\ open_input(input_exists) = "reading"
    /\ \E lines \in SeqsUpTo(RunLineSet, MaxLines) : infile' = Opened(lines)
    /\ pc' = "reading"
    /\ UNCHANGED <<error, input_exists, merge_option, seed, books, widx,
                   dir_exists, files, written, text, block_text, napplied>>

ReadSkip ==
    /\ pc = "reading"
    /\ readline(infile) # <<>>
    /\ header_line(infile) = <<>>
    /\ infile' = [infile EXCEPT !.pos = skip_header(infile)]
    /\ UNCHANGED <<pc, error, input_exists, merge_option, seed, books, widx,
                   dir_exists, files, written, text, block_text, napplied>>

ReadEntry ==
    /\ pc = "reading"
    /\ readline(infile) # <<>>
    /\ header_line(infile) # <<>>
    /\ LET r == read_entry(infile, books)
       IN /\ infile' = [infile EXCEPT !.pos = r.pos]
          /\ books' = r.books
    /\ UNCHANGED <<pc, error, input_exists, merge_option, seed, widx,
                   dir_exists, files, written, text, block_text, napplied>>

WriteBegin ==
    /\ pc = "reading"
    /\ readline(infile) = <<>>
    /\ infile' = Closed
    /\ pc' = "writing"
    /\ widx' = 1
    /\ dir_exists' = TRUE
    /\ UNCHANGED <<error, input_exists, merge_option, seed, books,
                   files, written, text, block_text, napplied>>

WriteBook ==
    /\ pc = "writing"
    /\ widx <= Len(books)
    /\ LET w == write_book(files, written, books[widx], merge_option, seed)
       IN /\ books' = [books EXCEPT ![widx].blocks = w.blocks]
          /\ files' = w.files
          /\ written' = w.written
    /\ widx' = widx + 1
    /\ UNCHANGED <<pc, error, input_exists, merge_option, seed, infile,
                   dir_exists, text, block_text, napplied>>

WriteEnd ==
    /\ pc = "writing"
    /\ widx > Len(books)
    /\ pc' = "done"
    /\ UNCHANGED <<error, input_exists, merge_option, seed, infile, books, widx,
                   dir_exists, files, written, text, block_text, napplied>>

Next ==
    \/ ParseMissing
    \/ ParseOpen
    \/ ReadSkip
    \/ ReadEntry
    \/ WriteBegin
    \/ WriteBook
    \/ WriteEnd

Spec == Init /\ [][Next]_vars

----------------------------------------------------------------------------
(* The Reader alone, on longer streams *)

InitRead ==
    /\ pc = "reading"
    /\ error = "none"
    /\ input_exists = TRUE
    /\ merge_option = TRUE
    /\ seed = PriorSeed
    /\ \E lines \in SeqsUpTo(LineSet, MaxStreamLen) : infile = Opened(lines)
    /\ books = <<>>
    /\ widx = 0
    /\ dir_exists = FreshDir.dir_exists
    /\ files = FreshDir.files
    /\ written = FreshDir.written
    /\ text = <<>>
    /\ block_text = <<>>
    /\ napplied = 0

NextRead ==
    \/ ReadSkip
    \/ ReadEntry

SpecRead == InitRead /\ [][NextRead]_vars

----------------------------------------------------------------------------
(* parse() in merge mode on the input whose earlier parse left the directory *)

InitRerun ==
    /\ pc = "reading"
    /\ error = "none"
    /\ input_exists = TRUE
    /\ merge_option = TRUE
    /\ seed \in Seeds
    /\ \E lines \in SeqsUpTo(LineSet, MaxRerunLines) :
          /\ infile = Opened(lines)
          /\ dir_exists = DirAfter(lines, PriorSeed).dir_exists
          /\ files = DirAfter(lines, PriorSeed).files
          /\ written = DirAfter(lines, PriorSeed).written
    /\ books = <<>>
    /\ widx = 0
    /\ text = <<>>
    /\ block_text = <<>>
    /\ napplied = 0

NextRerun ==
    \/ ReadSkip
    \/ ReadEntry
    \/ WriteBegin
    \/ WriteBook
    \/ WriteEnd

SpecRerun == InitRerun /\ [][NextRerun]_vars

----------------------------------------------------------------------------
(* _normalize_block applied to a string, and again to its result *)

InitNorm ==
    /\ pc = "init"
    /\ error = "none"
    /\ input_exists = TRUE
    /\ merge_option = TRUE
    /\ seed = PriorSeed
    /\ infile = Closed
    /\ books = <<>>
    /\ widx = 0
    /\ dir_exists = FreshDir.dir_exists
    /\ files = FreshDir.files
    /\ written = FreshDir.written
    /\ text \in SeqsUpTo(NormChars, MaxStrLen)
    /\ block_text = <<>>
    /\ napplied = 0

Normalize ==
    /\ napplied < 2
    /\ block_text' = _normalize_block(IF napplied = 0 THEN text ELSE block_text)
    /\ napplied' = napplied + 1
    /\ UNCHANGED <<pc, error, input_exists, merge_option, seed, infile, books, widx,
                   dir_exists, files, written, text>>

NextNorm == Normalize

SpecNorm == InitNorm /\ [][NextNorm]_vars

----------------------------------------------------------------------------
(* Claims *)

Range(s) == {s[i] : i \in 1..Len(s)}
IsPrefix(s, t) == Len(s) <= Len(t) /\ SubSeq(t, 1, Len(s)) = s
NoRepeats(s) == \A i, j \in 1..Len(s) : i # j => s[i] # s[j]
B_a == <<"a", NEW_LINE>>
B_ab == <<"a", "(", "b", ")", NEW_LINE>>
B_blank_a == <<" ", NEW_LINE, "a", NEW_LINE>>
B_empty == <<NEW_LINE>>

\* The book the for loop of _write is at, and its output file.
Writing == pc = "writing" /\ widx <= Len(books)
CurPath == fullpath(books[widx].header, seed)

\* The blocks _read_existing_blocks recovers from a file, normalized.
Recovered(content) ==
    LET old == _read_existing_blocks(content)
    IN [i \in 1..Len(old) |-> _normalize_block(old[i])]

\* The elements of old at the positions in idx, in their order in old.
RECURSIVE Pick(_, _, _)
Pick(old, idx, i) ==
    IF i > Len(old) THEN <<>>
    ELSE (IF i \in idx THEN <<old[i]>> ELSE <<>>) \o Pick(old, idx, i + 1)

OnlyOld(old, cur) ==
    Pick(old,
         {i \in 1..Len(old) :
             /\ old[i] \notin Range(cur)
             /\ \A j \in 1..(i - 1) : old[j] # old[i]},
         1)

\* C1: a merge-mode write for a header that has an output file from an
\* earlier run produces the file that holds the blocks of the current run in
\* parse order, followed by the blocks found only in that prior file, in
\* their order there, each once.
C1_MergeOrder ==
    [][(Writing /\ merge_option) =>
          \A q \in DOMAIN written :
              written[q].header = books[widx].header =>
                  files'[CurPath] =
                      file_text(books[widx].header,
                                books[widx].blocks
                                  \o OnlyOld(Recovered(files[q]), books[widx].blocks))]_vars

\* The same, for a prior file the running process finds under the filename
\* it computes: there the merge is as C1 states.
MergeOrderOfFoundFile ==
    [][(Writing /\ merge_option /\ CurPath \in DOMAIN files) =>
          LET merged == books[widx].blocks
                          \o OnlyOld(Recovered(files[CurPath]), books[widx].blocks)
          IN /\ files'[CurPath] = file_text(books[widx].header, merged)
             /\ books'[widx].blocks = merged]_vars

MergedFoundFile ==
    \E p \in DOMAIN written :
        /\ written[p].merged
        /\ written[p].prev = <<B_a>>
        /\ written[p].blocks = <<B_blank_a, B_a>>
        /\ files[p] = <<"a", ",", " ", NEW_LINE, NEW_LINE>>
                        \o B_blank_a \o <<NEW_LINE>> \o B_a \o <<NEW_LINE>>

\* C2: parsing the same input a second time in merge mode, against the
\* directory the first parse wrote, leaves every output file as it was.
C2_IdempotentMerge ==
    [][\A p \in DOMAIN files : p \in DOMAIN files' /\ files'[p] = files[p]]_vars

\* C3: every (non-empty) block serialized into the prior output file of a
\* header is still in the file a merge-mode write produces for that header.
C3_NeverShrunk ==
    \A p \in DOMAIN written :
        written[p].merged =>
            \A b \in Range(written[p].prev) :
                b # B_empty => b \in Range(written[p].blocks)

\* C4: no BookRecord ever holds two equal blocks, and parsing a block that its
\* header's record already holds leaves the records as they are.
C4_NoDuplicateBlocks ==
    /\ [](\A i \in 1..Len(books) : NoRepeats(books[i].blocks))
    /\ [][(/\ pc = "reading"
           /\ readline(infile) # <<>>
           /\ header_line(infile) # <<>>
           /\ \E i \in 1..Len(books) :
                 /\ books[i].header = header_line(infile)
                 /\ _normalize_block(
                        _read_block([infile EXCEPT !.pos = @ + 1], <<>>).annotation)
                       \in Range(books[i].blocks))
          => books' = books]_vars

C4_Witness ==
    /\ pc = "reading"
    /\ infile = [lines |-> <<L_a, L_a, SEPARATOR, L_a, L_a>>, pos |-> 5]
    /\ books = <<[header |-> L_a, blocks |-> <<B_a>>]>>

\* C5: the same raw header is always written to the same filename, also when
\* the two writes are made by different processes.
C5_FilenameDeterminism ==
    \A p, q \in DOMAIN written :
        written[p].header = written[q].header => p = q

\* C6: the Reader only appends: a header seen for the first time becomes the
\* last record, a block seen for the first time becomes the last block of its
\* header's record, and nothing already recorded moves or disappears.
C6_FirstSeenOrder ==
    [][(pc = "reading" /\ readline(infile) # <<>> /\ header_line(infile) # <<>>) =>
          LET h == header_line(infile)
              known == \E i \in 1..Len(books) : books[i].header = h
          IN /\ Len(books') = (IF known THEN Len(books) ELSE Len(books) + 1)
             /\ \A i \in 1..Len(books) :
                   /\ books'[i].header = books[i].header
                   /\ IsPrefix(books[i].blocks, books'[i].blocks)
                   /\ Len(books'[i].blocks) <= Len(books[i].blocks) + 1
                   /\ books[i].header # h => books'[i].blocks = books[i].blocks
             /\ ~known => /\ books'[Len(books')].header = h
                          /\ Len(books'[Len(books')].blocks) = 1]_vars

C6_Witness ==
    /\ infile = [lines |-> <<L_a, L_a, SEPARATOR, L_ab, SEPARATOR, L_a, L_ab>>, pos |-> 7]
    /\ books = <<[header |-> L_a, blocks |-> <<B_a, B_ab>>],
                 [header |-> L_ab, blocks |-> <<B_empty>>]>>

\* C7: _normalize_block returns its argument without its trailing whitespace
\* and line terminators, plus one line terminator, and applying it to its own
\* result changes nothing.
C7_NormalizeIdempotent ==
    /\ [](napplied >= 1 =>
            \E k \in 0..Len(text) :
                /\ k > 0 => ~isspace(text[k])
                /\ \A i \in (k + 1)..Len(text) : isspace(text[i])
                /\ block_text = SubSeq(text, 1, k) \o <<NEW_LINE>>)
    /\ [][napplied = 1 => block_text' = block_text]_vars

C7_Witness ==
    /\ napplied = 2
    /\ text = <<"a", " ", NEW_LINE, NEW_LINE>>
    /\ block_text = <<"a", NEW_LINE>>

\* C8: with no input file, parse() raises FileNotFoundError and nothing else
\* happens: the output directory is not created, no file changes, and
\* self.books stays empty.
C8_MissingInputNoOutput ==
    /\ [](~input_exists => pc \in {"init", "failed"} /\ books = <<>>)
    /\ [][(~input_exists /\ pc = "init") =>
             /\ pc' = "failed"
             /\ error' = "FileNotFoundError"
             /\ UNCHANGED <<dir_exists, files, books>>]_vars

C8_Witness ==
    /\ pc = "failed"
    /\ error = "FileNotFoundError"
    /\ ~dir_exists
    /\ DOMAIN files = {}
    /\ books = <<>>

\* C9: an overwrite-mode write produces the file that holds the blocks parsed
\* in the current run for the header, in parse order, whatever the file held.
C9_OverwriteOnlyCurrent ==
    [][(Writing /\ ~merge_option) =>
          /\ files'[CurPath] = file_text(books[widx].header, books[widx].blocks)
          /\ books' = books]_vars

C9_Witness ==
    \E p \in DOMAIN written :
        /\ ~merge_option
        /\ ~written[p].merged
        /\ written[p].prev = <<B_a>>
        /\ written[p].blocks = <<B_blank_a>>
        /\ files[p] = <<"a", ",", " ", NEW_LINE, NEW_LINE>> \o B_blank_a \o <<NEW_LINE>>

\* C10: a header line that is empty once stripped is skipped alone: the
\* stream advances by that one line, no record changes, and the next line is
\* read as a header.
C10_SkipKeepsBlock ==
    /\ [][(pc = "reading" /\ readline(infile) # <<>> /\ header_line(infile) = <<>>) =>
             /\ infile'.pos = infile.pos + 1
             /\ books' = books]_vars
    /\ [][(pc = "reading" /\ readline(infile) # <<>> /\ header_line(infile) # <<>>) =>
             \E i \in 1..Len(books') : books'[i].header = header_line(infile)]_vars

C10_Witness ==
    /\ infile = [lines |-> <<L_blank, L_a, L_ab, SEPARATOR, L_a>>, pos |-> 5]
    /\ books = <<[header |-> L_a, blocks |-> <<B_ab, B_empty>>]>>

====
